---- MODULE Spec2Model ----
(***************************************************************************)
(* A model of scripts/ue_packet_monitor.py: main, select_ue_interactive,   *)
(* probe_capture_permissions and the live loop of run_simple_monitor /     *)
(* run_5tuple_monitor (capture subprocess, pipe, decode, render, operator  *)
(* interrupt); and of the sampling loop of scripts/ue_tx_rx_monitor.py.    *)
(*                                                                         *)
(* Text is modelled at token level: a raw line is a sequence of tokens,    *)
(* each token a non-empty string that is the separator "|", a whitespace   *)
(* character, or a word without separator and whitespace.  Fields and      *)
(* printed lines are strings.                                              *)
(***************************************************************************)
EXTENDS Integers, Sequences, FiniteSets, TLC

VARIABLES
    mode,          \* "simple" (run_simple_monitor) or "5tuple" (run_5tuple_monitor)
    count_limit,   \* the count_limit argument (0: none)
    pc,            \* position of the monitoring program
    bound,         \* the locals of run_*_monitor that are assigned so far
    engine_limit,  \* the -c argument the capture engine was started with (0: none)
    capture_iface, \* the -i argument the capture engine was started with
    proc,          \* the capture subprocess: "none", "running", "exited", "killed"
    signals,       \* the signals the program sent to the subprocess, in order
    emitted,       \* number of records the engine wrote to its stdout
    pipe,          \* the records written by the engine and not yet read
    packet_count,  \* the local packet_count
    cur,           \* the locals src, src_port, dst, dst_port, protocol of the loop body
    trace,         \* the records read so far, each with the outcome of its decoding
    out,           \* what the program printed on stdout, in order
    interrupts,    \* number of operator interrupts delivered so far
    handled,       \* TRUE once the except KeyboardInterrupt clause was entered
    exit_status,   \* "running", or how the program ended: "0", "1", "sigint"
    probe_in,      \* the outcome of the probe's subprocess.run
    probe_out,     \* the value returned by probe_capture_permissions
    args,          \* the parsed arguments --select, --src-ip, --interface
    tshark_ok,     \* what check_tshark returned: "unchecked", "yes", "no"
    ue_list,       \* the list returned by list_active_ues()
    choice,        \* the local choice of select_ue_interactive
    entries,       \* number of calls of input() that returned or raised
    selected,      \* the value returned by select_ue_interactive
    main_src_ip,   \* the local src_ip of main
    interface,     \* the local interface of main
    probed,        \* the interfaces the permission probe was run on, in order
    ifaces,        \* sampler: the interfaces it monitors
    sample_limit,  \* sampler: args.count (0: no limit)
    prev,          \* sampler: the dict prev, interface -> (rxp, rxb, txp, txb)
    sample,        \* sampler: the local sample
    rows,          \* sampler: the list rows of the current sample
    counters,      \* sampler: the locals rxp, rxb, txp, txb of the loop body
    iface_idx,     \* sampler: position of the loop "for iface in ifaces"
    tables,        \* sampler: number of tables printed
    last_full,     \* sampler: the readings of the latest sample that read all four counters
    accounted      \* sampler: per counter, the baseline plus the deltas reported so far

vars == <<mode, count_limit, pc, bound, engine_limit, capture_iface, proc, signals, emitted, pipe,
          packet_count, cur, trace, out, interrupts, handled, exit_status,
          probe_in, probe_out, args, tshark_ok, ue_list, choice, entries, selected,
          main_src_ip, interface, probed, ifaces, sample_limit, prev, sample, rows,
          counters, iface_idx, tables, last_full, accounted>>

probeVars == <<probe_in, probe_out>>

mainVars == <<args, tshark_ok, ue_list, choice, entries, selected, main_src_ip, interface,
              probed>>

samplerVars == <<ifaces, sample_limit, prev, sample, rows, counters, iface_idx, tables,
                 last_full, accounted>>

\* the sampler is another program: its variables never change in a run of the tap
NoSampler ==
    /\ ifaces = <<>>
    /\ sample_limit = 0
    /\ prev = <<>>
    /\ sample = 0
    /\ rows = <<>>
    /\ counters = <<>>
    /\ iface_idx = 0
    /\ tables = 0
    /\ last_full = <<>>
    /\ accounted = <<>>

(***************************************************************************)
(* Bounds of the model.                                                    *)
(***************************************************************************)
MaxRecords == 3      \* records the engine emits in one run
PipeCap == 1         \* records in flight between engine and program
MaxLimit == 3        \* largest --count value
MaxInterrupts == 2   \* operator interrupts in one run
ExtraFields == 1     \* fields beyond the layout in the decoder's input universe
MaxStderr == 3       \* tokens of the probe's diagnostic stream
MaxReturnCode == 2   \* largest exit status of the probe subprocess
MaxUEs == 2          \* val* interfaces of the host
MaxEntries == 2      \* lines read at the prompt of one selection
MaxLevel == 1        \* rounds of traffic an interface of the sampler carried
MaxSamples == 2      \* samples the sampler takes

(***************************************************************************)
(* Strings.                                                                *)
(***************************************************************************)
SEP == "|"

IsSpace(t) == t \in {" ", "\n", "\t"}

RECURSIVE LStrip(_)
LStrip(s) == IF s # <<>> /\ IsSpace(Head(s)) THEN LStrip(Tail(s)) ELSE s

RECURSIVE RStrip(_)
RStrip(s) ==
    IF s # <<>> /\ IsSpace(s[Len(s)]) THEN RStrip(SubSeq(s, 1, Len(s) - 1)) ELSE s

\* str.strip() with no argument
Strip(s) == RStrip(LStrip(s))

\* str.split('|'): the maximal runs between separators, empty runs kept
RECURSIVE Split(_)
Split(s) ==
    IF s = <<>> THEN <<"">>
    ELSE LET init == Split(SubSeq(s, 1, Len(s) - 1))
             t == s[Len(s)]
         IN  IF t = SEP THEN Append(init, "")
             ELSE [init EXCEPT ![Len(init)] = @ \o t]

RECURSIVE Spaces(_)
Spaces(n) == IF n <= 0 THEN "" ELSE " " \o Spaces(n - 1)

\* the format specs {x:>w} and {x:<w}
AlignRight(s, w) == Spaces(w - Len(s)) \o s
AlignLeft(s, w) == s \o Spaces(w - Len(s))

(***************************************************************************)
(* Decoding and rendering.                                                 *)
(***************************************************************************)
Modes == {"simple", "5tuple"}

\* the number of -e fields of the capture command
NumFields(m) == IF m = "simple" THEN 6 ELSE 10

\* the guard len(parts) < 4 / len(parts) < 8
MinParts(m) == IF m = "simple" THEN 4 ELSE 8

protocol_map == [p \in {"1", "6", "17", "58"} |->
                    CASE p = "1" -> "ICMP"
                      [] p = "6" -> "TCP"
                      [] p = "17" -> "UDP"
                      [] p = "58" -> "ICMPv6"]

\* map_protocol with the table's default taken for every unknown number
map_protocol_default_ip(proto_num) ==
    IF proto_num \in DOMAIN protocol_map THEN protocol_map[proto_num] ELSE "IP"

map_protocol(proto_num) ==
    IF proto_num \in DOMAIN protocol_map THEN protocol_map[proto_num]
    ELSE IF proto_num # "" THEN proto_num ELSE "IP"

\* the resolution with the IPv6 field tried first
FirstNonEmptyV6(a, b) == IF b # "" THEN b ELSE a

\* a if a else b
FirstNonEmpty(a, b) == IF a # "" THEN a ELSE b

\* parts[i] if len(parts) > i and parts[i] else (parts[j] if len(parts) > j else '')
\* with 0-based i, j = i + 1; p is 1-based here
ProtoNum(parts, p) ==
    IF Len(parts) >= p /\ parts[p] # "" THEN parts[p]
    ELSE IF Len(parts) >= p + 1 THEN parts[p + 1] ELSE ""

NoTuple == [src |-> "", src_port |-> "", dst |-> "", dst_port |-> "", protocol |-> ""]

\* the assignments of the loop body to src, src_port, dst, dst_port, protocol
ResolveSimple(parts) ==
    [src |-> FirstNonEmpty(parts[1], parts[2]),
     src_port |-> "",
     dst |-> FirstNonEmpty(parts[3], parts[4]),
     dst_port |-> "",
     protocol |-> map_protocol(ProtoNum(parts, 5))]

Resolve5Tuple(parts) ==
    [src |-> FirstNonEmpty(parts[1], parts[2]),
     src_port |-> FirstNonEmpty(parts[3], parts[4]),
     dst |-> FirstNonEmpty(parts[5], parts[6]),
     dst_port |-> FirstNonEmpty(parts[7], parts[8]),
     protocol |-> map_protocol(ProtoNum(parts, 9))]

ResolveFields(m, parts) == IF m = "simple" THEN ResolveSimple(parts) ELSE Resolve5Tuple(parts)

\* format_simple_line with the counter aligned to the left
format_simple_line_left(src_ip, dst_ip, protocol, count) ==
    AlignLeft(ToString(count), 6) \o "  " \o AlignLeft(src_ip, 15) \o " ---> "
        \o AlignLeft(dst_ip, 15) \o "  [" \o protocol \o "]"

format_simple_line(src_ip, dst_ip, protocol, count) ==
    AlignRight(ToString(count), 6) \o "  " \o AlignLeft(src_ip, 15) \o " ---> "
        \o AlignLeft(dst_ip, 15) \o "  [" \o protocol \o "]"

\* format_5tuple_line with the port suffix attached unconditionally
format_5tuple_line_with_ports(src_ip, src_port, dst_ip, dst_port, protocol, count) ==
    LET src_part == src_ip \o ":" \o src_port
        dst_part == dst_ip \o ":" \o dst_port
    IN  AlignRight(ToString(count), 6) \o "  " \o AlignLeft(src_part, 22) \o " ---> "
            \o AlignLeft(dst_part, 22) \o "  [" \o protocol \o "]"

format_5tuple_line(src_ip, src_port, dst_ip, dst_port, protocol, count) ==
    LET src_part == IF src_port # "" THEN src_ip \o ":" \o src_port ELSE src_ip
        dst_part == IF dst_port # "" THEN dst_ip \o ":" \o dst_port ELSE dst_ip
    IN  AlignRight(ToString(count), 6) \o "  " \o AlignLeft(src_part, 22) \o " ---> "
            \o AlignLeft(dst_part, 22) \o "  [" \o protocol \o "]"

FormatLine(m, t, count) ==
    IF m = "simple" THEN format_simple_line(t.src, t.dst, t.protocol, count)
    ELSE format_5tuple_line(t.src, t.src_port, t.dst, t.dst_port, t.protocol, count)

(***************************************************************************)
(* The capture engine.  With -T fields -E separator=| it writes one line   *)
(* per packet: the requested fields joined by the separator, an absent     *)
(* field as the empty string, and a newline.                               *)
(***************************************************************************)
RECURSIVE JoinFields(_)
JoinFields(fields) ==
    IF fields = <<>> THEN <<>>
    ELSE LET last == fields[Len(fields)]
             tok == IF last = "" THEN <<>> ELSE <<last>>
         IN  IF Len(fields) = 1 THEN tok
             ELSE JoinFields(SubSeq(fields, 1, Len(fields) - 1)) \o <<SEP>> \o tok

EngineLine(fields) == JoinFields(fields) \o <<"\n">>

\* the records the engine may emit in a run of the state machine
StreamFields(m) ==
    IF m = "simple"
    THEN {<<"10.0.0.1", "", "10.0.0.2", "", "6", "">>,
          <<"", "fd00::1", "", "fd00::2", "", "58">>,
          <<"10.0.0.1", "", "", "", "1", "">>,
          <<"10.0.0.1", "", "10.0.0.2", "">>,
          <<"">>}
    ELSE {<<"10.0.0.1", "", "80", "", "10.0.0.2", "", "443", "", "6", "">>,
          <<"", "fd00::1", "", "53", "", "fd00::2", "", "53", "", "17">>,
          <<"10.0.0.1", "", "", "", "", "", "", "", "1", "">>,
          <<"10.0.0.1", "", "", "", "10.0.0.2", "", "", "">>,
          <<"">>}

StreamRecords(m) == {EngineLine(f) : f \in StreamFields(m)}

\* the command built without the -c option
CmdLimitDropped(limit) == 0

\* if count_limit: tshark_cmd.extend(['-c', str(count_limit)])
CmdLimit(limit) == IF limit # 0 THEN limit ELSE 0

(***************************************************************************)
(* Output.                                                                 *)
(***************************************************************************)
RECURSIVE Repeat(_, _)
Repeat(c, n) == IF n <= 0 THEN "" ELSE c \o Repeat(c, n - 1)

RuleWidth(m) == IF m = "simple" THEN 80 ELSE 100

Printed(kind, text, n) == [kind |-> kind, text |-> text, n |-> n]

RuleLine(m) == Printed("rule", "\n" \o Repeat("=", RuleWidth(m)), 0)

HeaderBlock(m) == Printed("header", "Press Ctrl-C to stop", 0)

PacketLine(m, t, count) == Printed("line", FormatLine(m, t, count), count)

NoticeLine == Printed("notice", "No packets were captured", 0)

SummaryLine(count) ==
    Printed("summary", "Stopped by user. Total packets captured: " \o ToString(count), count)

ErrorLine == Printed("error", "\nError: local variable referenced before assignment", 0)

(***************************************************************************)
(* The run: run_simple_monitor / run_5tuple_monitor called from main.      *)
(***************************************************************************)
NoProbe == [kind |-> "none", returncode |-> 0, stderr |-> <<>>, errmsg |-> <<>>]
NoResult == [ok |-> FALSE, msg |-> <<"unset">>]
OkResult == [ok |-> TRUE, msg |-> <<>>]

\* the value of a local that is not assigned, and of an option that is not given
None == ""

\* main at the call of run_*_monitor, started as --src-ip 10.61.0.1 with the
\* address found on val0
MainAtRun ==
    /\ args = [select |-> FALSE, src_ip |-> "10.61.0.1", interface |-> None]
    /\ tshark_ok = "yes"
    /\ ue_list = <<>>
    /\ choice = <<>>
    /\ entries = 0
    /\ selected = <<>>
    /\ main_src_ip = "10.61.0.1"
    /\ interface = "val0"
    /\ probed = <<"val0">>

Init ==
    /\ mode \in Modes
    /\ count_limit \in 0..MaxLimit
    /\ pc = "entry"
    /\ bound = {}
    /\ engine_limit = 0
    /\ capture_iface = None
    /\ proc = "none"
    /\ signals = <<>>
    /\ emitted = 0
    /\ pipe = <<>>
    /\ packet_count = 0
    /\ cur = NoTuple
    /\ trace = <<>>
    /\ out = <<>>
    /\ interrupts = 0
    /\ handled = FALSE
    /\ exit_status = "running"
    /\ probe_in = NoProbe
    /\ probe_out = OkResult
    /\ MainAtRun
    /\ NoSampler

\* the banner and the command, before the try statement
Entry ==
    /\ pc = "entry"
    /\ out' = Append(out, HeaderBlock(mode))
    /\ pc' = "popen"
    /\ UNCHANGED <<mode, count_limit, bound, engine_limit, capture_iface,
                   proc, signals, emitted, pipe,
                   packet_count, cur, trace, interrupts, handled, exit_status>>
    /\ UNCHANGED probeVars
    /\ UNCHANGED samplerVars
    /\ UNCHANGED mainVars

\* process = subprocess.Popen(...)
Popen ==
    /\ pc = "popen"
    /\ proc' = "running"
    /\ engine_limit' = CmdLimit(count_limit)
    /\ capture_iface' = interface
    /\ bound' = bound \cup {"process"}
    /\ pc' = "init_count"
    /\ UNCHANGED <<mode, count_limit, signals, emitted, pipe, packet_count, cur, trace,
                   out, interrupts, handled, exit_status>>
    /\ UNCHANGED probeVars
    /\ UNCHANGED samplerVars
    /\ UNCHANGED mainVars

\* packet_count = 0
InitCount ==
    /\ pc = "init_count"
    /\ packet_count' = 0
    /\ bound' = bound \cup {"packet_count"}
    /\ pc' = "read"
    /\ UNCHANGED <<mode, count_limit, engine_limit, capture_iface,
                   proc, signals, emitted, pipe, cur,
                   trace, out, interrupts, handled, exit_status>>
    /\ UNCHANGED probeVars
    /\ UNCHANGED samplerVars
    /\ UNCHANGED mainVars

\* the engine writes a record; with -c N it writes at most N
EngineEmit(line) ==
    /\ proc = "running"
    /\ emitted < MaxRecords
    /\ engine_limit = 0 \/ emitted < engine_limit
    /\ Len(pipe) < PipeCap
    /\ pipe' = Append(pipe, line)
    /\ emitted' = emitted + 1
    /\ UNCHANGED <<mode, count_limit, pc, bound, engine_limit, capture_iface, proc, signals,
                   packet_count, cur, trace, out, interrupts, handled, exit_status>>
    /\ UNCHANGED probeVars
    /\ UNCHANGED samplerVars
    /\ UNCHANGED mainVars

\* the engine exits: its count limit is reached, it was signalled, or it failed
EngineExit ==
    /\ proc = "running"
    /\ proc' = "exited"
    /\ UNCHANGED <<mode, count_limit, pc, bound, engine_limit, capture_iface,
                   signals, emitted, pipe,
                   packet_count, cur, trace, out, interrupts, handled, exit_status>>
    /\ UNCHANGED probeVars
    /\ UNCHANGED samplerVars
    /\ UNCHANGED mainVars

\* the loop body without the guard on len(parts): missing fields read as empty
DecodeNoGuard(m, raw) ==
    LET line == Strip(raw)
        parts == Split(line) \o [i \in 1..NumFields(m) |-> ""]
        t == ResolveFields(m, parts)
    IN  IF line = <<>>
        THEN [assigned |-> FALSE, locals |-> NoTuple, tuple |-> FALSE]
        ELSE [assigned |-> TRUE, locals |-> t, tuple |-> (t.src # "" /\ t.dst # "")]

\* the loop body with src and dst keeping the previous iteration's value when
\* both of their fields are empty
DecodeStale(m, raw) ==
    LET line == Strip(raw)
        parts == Split(line)
    IN  IF line = <<>> \/ Len(parts) < MinParts(m)
        THEN [assigned |-> FALSE, locals |-> NoTuple, tuple |-> FALSE]
        ELSE LET r == ResolveFields(m, parts)
                 t == [r EXCEPT !.src = IF r.src = "" THEN cur.src ELSE r.src,
                                !.dst = IF r.dst = "" THEN cur.dst ELSE r.dst]
             IN  [assigned |-> TRUE, locals |-> t, tuple |-> (t.src # "" /\ t.dst # "")]

\* the body of the loop from line.strip() to the test "if src and dst":
\* whether the locals were assigned, their values, and whether a tuple results
Decode(m, raw) ==
    LET line == Strip(raw)
        parts == Split(line)
    IN  IF line = <<>> \/ Len(parts) < MinParts(m)
        THEN [assigned |-> FALSE, locals |-> NoTuple, tuple |-> FALSE]
        ELSE LET t == ResolveFields(m, parts)
             IN  [assigned |-> TRUE, locals |-> t, tuple |-> (t.src # "" /\ t.dst # "")]

Outcome(raw, d) ==
    [raw |-> raw,
     outcome |-> IF d.tuple THEN "tuple" ELSE "skip",
     tuple |-> IF d.tuple THEN d.locals ELSE NoTuple]

\* one iteration of "for line in process.stdout", up to and including
\* packet_count += 1
ReadRecord ==
    /\ pc = "read"
    /\ pipe # <<>>
    /\ pipe' = Tail(pipe)
    /\ LET d == Decode(mode, Head(pipe))
       IN  /\ trace' = Append(trace, Outcome(Head(pipe), d))
           /\ cur' = IF d.assigned THEN d.locals ELSE cur
           /\ packet_count' = IF d.tuple THEN packet_count + 1 ELSE packet_count
           /\ pc' = IF d.tuple THEN "print" ELSE "read"
    /\ UNCHANGED <<mode, count_limit, bound, engine_limit, capture_iface,
                   proc, signals, emitted, out,
                   interrupts, handled, exit_status>>
    /\ UNCHANGED probeVars
    /\ UNCHANGED samplerVars
    /\ UNCHANGED mainVars

\* the line put in front of what was printed before
PrintLineNewestFirst ==
    /\ pc = "print"
    /\ out' = <<PacketLine(mode, cur, packet_count)>> \o out
    /\ pc' = "read"
    /\ UNCHANGED <<mode, count_limit, bound, engine_limit, capture_iface,
                   proc, signals, emitted, pipe,
                   packet_count, cur, trace, interrupts, handled, exit_status>>
    /\ UNCHANGED probeVars
    /\ UNCHANGED samplerVars
    /\ UNCHANGED mainVars

\* print(format_..._line(...)); sys.stdout.flush()
PrintLine ==
    /\ pc = "print"
    /\ out' = Append(out, PacketLine(mode, cur, packet_count))
    /\ pc' = "read"
    /\ UNCHANGED <<mode, count_limit, bound, engine_limit, capture_iface,
                   proc, signals, emitted, pipe,
                   packet_count, cur, trace, interrupts, handled, exit_status>>
    /\ UNCHANGED probeVars
    /\ UNCHANGED samplerVars
    /\ UNCHANGED mainVars

\* the iteration ends: the pipe is empty and its write end is closed
EndOfStream ==
    /\ pc = "read"
    /\ pipe = <<>>
    /\ proc # "running"
    /\ pc' = "wait"
    /\ UNCHANGED <<mode, count_limit, bound, engine_limit, capture_iface,
                   proc, signals, emitted, pipe,
                   packet_count, cur, trace, out, interrupts, handled, exit_status>>
    /\ UNCHANGED probeVars
    /\ UNCHANGED samplerVars
    /\ UNCHANGED mainVars

\* process.wait()
WaitExit ==
    /\ pc = "wait"
    /\ proc # "running"
    /\ pc' = "notice"
    /\ UNCHANGED <<mode, count_limit, bound, engine_limit, capture_iface,
                   proc, signals, emitted, pipe,
                   packet_count, cur, trace, out, interrupts, handled, exit_status>>
    /\ UNCHANGED probeVars
    /\ UNCHANGED samplerVars
    /\ UNCHANGED mainVars

\* the notice printed without the test on packet_count
NoticeAlways ==
    /\ pc = "notice"
    /\ out' = out \o <<RuleLine(mode), NoticeLine, RuleLine(mode)>>
    /\ pc' = "return"
    /\ UNCHANGED <<mode, count_limit, bound, engine_limit, capture_iface,
                   proc, signals, emitted, pipe,
                   packet_count, cur, trace, interrupts, handled, exit_status>>
    /\ UNCHANGED probeVars
    /\ UNCHANGED samplerVars
    /\ UNCHANGED mainVars

\* if packet_count == 0: print the notice between two rules
Notice ==
    /\ pc = "notice"
    /\ out' = IF packet_count = 0
              THEN out \o <<RuleLine(mode), NoticeLine, RuleLine(mode)>>
              ELSE out
    /\ pc' = "return"
    /\ UNCHANGED <<mode, count_limit, bound, engine_limit, capture_iface,
                   proc, signals, emitted, pipe,
                   packet_count, cur, trace, interrupts, handled, exit_status>>
    /\ UNCHANGED probeVars
    /\ UNCHANGED samplerVars
    /\ UNCHANGED mainVars

\* run_*_monitor returned without an exception: main ends, status 0
Return ==
    /\ pc = "return"
    /\ pc' = "exited"
    /\ exit_status' = "0"
    /\ UNCHANGED <<mode, count_limit, bound, engine_limit, capture_iface,
                   proc, signals, emitted, pipe,
                   packet_count, cur, trace, out, interrupts, handled>>
    /\ UNCHANGED probeVars
    /\ UNCHANGED samplerVars
    /\ UNCHANGED mainVars

(***************************************************************************)
(* The operator interrupt: KeyboardInterrupt is raised at the statement    *)
(* the program is executing.                                               *)
(***************************************************************************)
\* the statements of the try block of run_*_monitor
InTry == {"popen", "init_count", "read", "print", "wait", "notice"}

\* the statements from entry into run_*_monitor until it returns
InRun == {"entry"} \cup InTry \cup {"except", "terminate", "grace", "kill"}

\* where control goes when KeyboardInterrupt is raised at position p
InterruptTarget(p) ==
    CASE p \in InTry -> "except"                          \* except KeyboardInterrupt
      [] p \in {"terminate", "grace"} -> "kill"           \* the bare except of the handler
      [] p = "kill" -> "return"                           \* except: pass
      [] OTHER -> "exited"                                \* not caught by main either

Interrupt ==
    /\ pc \in InRun
    /\ interrupts < MaxInterrupts
    /\ interrupts' = interrupts + 1
    /\ pc' = InterruptTarget(pc)
    /\ handled' = (handled \/ pc' = "except")
    /\ exit_status' = IF pc' = "exited" THEN "sigint" ELSE exit_status
    \* an interrupt inside Popen may come before or after the child was started
    /\ IF pc = "popen"
       THEN /\ proc' \in {"none", "running"}
            /\ engine_limit' = IF proc' = "running" THEN CmdLimit(count_limit) ELSE engine_limit
            /\ capture_iface' = IF proc' = "running" THEN interface ELSE capture_iface
       ELSE UNCHANGED <<proc, engine_limit, capture_iface>>
    /\ UNCHANGED <<mode, count_limit, bound, signals, emitted, pipe, packet_count, cur,
                   trace, out>>
    /\ UNCHANGED probeVars
    /\ UNCHANGED samplerVars
    /\ UNCHANGED mainVars

\* the three prints of the except KeyboardInterrupt clause; the second reads
\* packet_count, and a local that was never assigned raises UnboundLocalError,
\* which main reports before sys.exit(1)
Summary ==
    /\ pc = "except"
    /\ IF "packet_count" \in bound
       THEN /\ out' = out \o <<RuleLine(mode), SummaryLine(packet_count),
                               Printed("rule", Repeat("=", RuleWidth(mode)), 0)>>
            /\ pc' = "terminate"
            /\ UNCHANGED exit_status
       ELSE /\ out' = out \o <<RuleLine(mode), ErrorLine>>
            /\ pc' = "exited"
            /\ exit_status' = "1"
    /\ UNCHANGED <<mode, count_limit, bound, engine_limit, capture_iface,
                   proc, signals, emitted, pipe,
                   packet_count, cur, trace, interrupts, handled>>
    /\ UNCHANGED probeVars
    /\ UNCHANGED samplerVars
    /\ UNCHANGED mainVars

\* process.terminate(): SIGTERM unless the subprocess has already exited
Terminate ==
    /\ pc = "terminate"
    /\ IF "process" \in bound
       THEN /\ signals' = IF proc = "running" THEN Append(signals, "TERM") ELSE signals
            /\ pc' = "grace"
       ELSE /\ pc' = "kill"
            /\ UNCHANGED signals
    /\ UNCHANGED <<mode, count_limit, bound, engine_limit, capture_iface, proc, emitted, pipe,
                   packet_count, cur, trace, out, interrupts, handled, exit_status>>
    /\ UNCHANGED probeVars
    /\ UNCHANGED samplerVars
    /\ UNCHANGED mainVars

\* process.wait(timeout=2) returns: the subprocess has exited
GraceExited ==
    /\ pc = "grace"
    /\ proc # "running"
    /\ pc' = "return"
    /\ UNCHANGED <<mode, count_limit, bound, engine_limit, capture_iface,
                   proc, signals, emitted, pipe,
                   packet_count, cur, trace, out, interrupts, handled, exit_status>>
    /\ UNCHANGED probeVars
    /\ UNCHANGED samplerVars
    /\ UNCHANGED mainVars

\* process.wait(timeout=2) raises TimeoutExpired: still running after the grace period
GraceTimeout ==
    /\ pc = "grace"
    /\ proc = "running"
    /\ pc' = "kill"
    /\ UNCHANGED <<mode, count_limit, bound, engine_limit, capture_iface,
                   proc, signals, emitted, pipe,
                   packet_count, cur, trace, out, interrupts, handled, exit_status>>
    /\ UNCHANGED probeVars
    /\ UNCHANGED samplerVars
    /\ UNCHANGED mainVars

\* process.kill(): SIGKILL unless the subprocess has already exited
Kill ==
    /\ pc = "kill"
    /\ IF "process" \in bound /\ proc = "running"
       THEN /\ signals' = Append(signals, "KILL")
            /\ proc' = "killed"
       ELSE UNCHANGED <<signals, proc>>
    /\ pc' = "return"
    /\ UNCHANGED <<mode, count_limit, bound, engine_limit, capture_iface, emitted, pipe,
                   packet_count, cur, trace, out, interrupts, handled, exit_status>>
    /\ UNCHANGED probeVars
    /\ UNCHANGED samplerVars
    /\ UNCHANGED mainVars

Next ==
    \/ Entry
    \/ Popen
    \/ InitCount
    \/ \E line \in StreamRecords(mode) : EngineEmit(line)
    \/ EngineExit
    \/ ReadRecord
    \/ PrintLine
    \/ EndOfStream
    \/ WaitExit
    \/ Notice
    \/ Return
    \/ Interrupt
    \/ Summary
    \/ Terminate
    \/ GraceExited
    \/ GraceTimeout
    \/ Kill

Spec == Init /\ [][Next]_vars

(***************************************************************************)
(* The decoder on its own: one record, of any shape, is waiting in the     *)
(* pipe of a run that is inside its loop.                                  *)
(***************************************************************************)
ProtoValues == {"", "1", "6", "17", "58", "99"}
NextHeaderValues == {"", "6", "58"}

\* per position of the -e list, the values the field takes in the input universe
FieldChoices(m) ==
    IF m = "simple"
    THEN <<{"", "10.0.0.1"}, {"", "fd00::1"}, {"", "10.0.0.2"}, {"", "fd00::2"},
           ProtoValues, NextHeaderValues>>
    ELSE <<{"", "10.0.0.1"}, {"", "fd00::1"}, {"", "80"}, {"", "53"},
           {"", "10.0.0.2"}, {"", "fd00::2"}, {"", "443"}, {"", "53"},
           ProtoValues, NextHeaderValues>>

RECURSIVE Product(_)
Product(choices) ==
    IF choices = <<>> THEN {<<>>}
    ELSE {Append(init, last) : init \in Product(SubSeq(choices, 1, Len(choices) - 1)),
                               last \in choices[Len(choices)]}

\* every field vector of 1 to NumFields(m) + ExtraFields fields
DecodeFields(m) ==
    LET all == FieldChoices(m) \o [i \in 1..ExtraFields |-> {"", "7"}]
    IN  UNION {Product(SubSeq(all, 1, k)) : k \in 1..Len(all)}

DecodeRecords(m) == {EngineLine(f) : f \in DecodeFields(m)}

InitDecode ==
    /\ mode \in Modes
    /\ count_limit = 0
    /\ pc = "read"
    /\ bound = {"process", "packet_count"}
    /\ engine_limit = 0
    /\ capture_iface = "val0"
    /\ proc = "exited"
    /\ signals = <<>>
    /\ emitted = 1
    /\ pipe \in {<<line>> : line \in DecodeRecords(mode)}
    /\ packet_count = 0
    /\ cur = NoTuple
    /\ trace = <<>>
    /\ out = <<HeaderBlock(mode)>>
    /\ interrupts = 0
    /\ handled = FALSE
    /\ exit_status = "running"
    /\ probe_in = NoProbe
    /\ probe_out = OkResult
    /\ MainAtRun
    /\ NoSampler

NextDecode ==
    \/ ReadRecord
    \/ PrintLine

SpecDecode == InitDecode /\ [][NextDecode]_vars

(***************************************************************************)
(* probe_capture_permissions.  The diagnostic stream is a sequence of      *)
(* words and whitespace characters; a substring test is a test for a word. *)
(***************************************************************************)
StderrTokens == {"Permission", "denied", "tshark:", " ", "\n"}

RECURSIVE SeqsUpTo(_, _)
SeqsUpTo(S, n) ==
    IF n = 0 THEN {<<>>}
    ELSE LET shorter == SeqsUpTo(S, n - 1)
         IN  shorter \cup {Append(s, t) : s \in shorter, t \in S}

StderrTexts == SeqsUpTo(StderrTokens, MaxStderr)

\* what subprocess.run(cmd, capture_output=True, text=True, timeout=4) does
ProbeOutcomes ==
    {[kind |-> "completed", returncode |-> rc, stderr |-> e, errmsg |-> <<>>] :
        rc \in 0..MaxReturnCode, e \in StderrTexts}
    \cup {[kind |-> "timeout", returncode |-> 0, stderr |-> e, errmsg |-> <<>>] :
        e \in StderrTexts}
    \cup {[kind |-> "notfound", returncode |-> 0, stderr |-> <<>>, errmsg |-> <<>>]}
    \cup {[kind |-> "error", returncode |-> 0, stderr |-> <<>>,
           errmsg |-> <<"Exec", " ", "format", " ", "error">>]}

\* str.lower(), on the words of the universe
LowerToken(t) ==
    CASE t = "Permission" -> "permission"
      [] t = "Q" -> "q"
      [] OTHER -> t
Lower(s) == [i \in 1..Len(s) |-> LowerToken(s[i])]

\* w in s
HasWord(s, w) == \E i \in 1..Len(s) : s[i] = w

\* phrase in s
HasPhrase(s, phrase) ==
    \E i \in 1..(Len(s) - Len(phrase) + 1) : SubSeq(s, i, i + Len(phrase) - 1) = phrase

\* the probe with the permission test on the text as written, not lowered
probe_case_sensitive(r) ==
    CASE r.kind = "notfound" -> [ok |-> FALSE, msg |-> <<"tshark", " ", "not", " ", "found">>]
      [] r.kind = "timeout" -> [ok |-> TRUE, msg |-> <<>>]
      [] r.kind = "error" -> [ok |-> FALSE, msg |-> r.errmsg]
      [] OTHER ->
            IF HasWord(r.stderr, "permission")
            THEN [ok |-> FALSE, msg |-> Strip(r.stderr)]
            ELSE IF r.returncode # 0 /\ r.stderr # <<>>
                 THEN [ok |-> FALSE, msg |-> Strip(r.stderr)]
                 ELSE [ok |-> TRUE, msg |-> <<>>]

\* the probe without the test on the exit status
probe_ignores_returncode(r) ==
    CASE r.kind = "notfound" -> [ok |-> FALSE, msg |-> <<"tshark", " ", "not", " ", "found">>]
      [] r.kind = "timeout" -> [ok |-> TRUE, msg |-> <<>>]
      [] r.kind = "error" -> [ok |-> FALSE, msg |-> r.errmsg]
      [] OTHER ->
            IF HasWord(Lower(r.stderr), "permission")
            THEN [ok |-> FALSE, msg |-> Strip(r.stderr)]
            ELSE [ok |-> TRUE, msg |-> <<>>]

ProbeResult(ok, msg) == [ok |-> ok, msg |-> msg]

probe_capture_permissions(r) ==
    CASE r.kind = "notfound" -> ProbeResult(FALSE, <<"tshark", " ", "not", " ", "found">>)
      [] r.kind = "timeout" -> ProbeResult(TRUE, <<>>)
      [] r.kind = "error" -> ProbeResult(FALSE, r.errmsg)
      [] OTHER ->
            LET stderr == Lower(r.stderr)
            IN  IF \/ HasWord(stderr, "permission")
                   \/ HasPhrase(stderr, <<"you", " ", "don't", " ", "have", " ", "permission">>)
                THEN ProbeResult(FALSE, Strip(r.stderr))
                ELSE IF r.returncode # 0 /\ stderr # <<>>
                     THEN ProbeResult(FALSE, Strip(r.stderr))
                     ELSE ProbeResult(TRUE, <<>>)

InitProbe ==
    /\ mode \in Modes
    /\ count_limit = 0
    /\ pc = "probe"
    /\ bound = {}
    /\ engine_limit = 0
    /\ capture_iface = None
    /\ proc = "none"
    /\ signals = <<>>
    /\ emitted = 0
    /\ pipe = <<>>
    /\ packet_count = 0
    /\ cur = NoTuple
    /\ trace = <<>>
    /\ out = <<>>
    /\ interrupts = 0
    /\ handled = FALSE
    /\ exit_status = "running"
    /\ probe_in \in ProbeOutcomes
    /\ probe_out = NoResult
    /\ args = [select |-> FALSE, src_ip |-> "10.61.0.1", interface |-> None]
    /\ tshark_ok = "yes"
    /\ ue_list = <<>>
    /\ choice = <<>>
    /\ entries = 0
    /\ selected = <<>>
    /\ main_src_ip = "10.61.0.1"
    /\ interface = "val0"
    /\ probed = <<>>
    /\ NoSampler

\* the probe called with the --interface argument in place of the local interface
ProbeOnArgument ==
    /\ pc = "probe"
    /\ probe_out' = probe_capture_permissions(probe_in)
    /\ probed' = Append(probed, args.interface)
    /\ pc' = "probed"
    /\ UNCHANGED <<mode, count_limit, bound, engine_limit, capture_iface, proc, signals,
                   emitted, pipe, packet_count, cur, trace, out, interrupts, handled,
                   exit_status, probe_in>>
    /\ UNCHANGED <<args, tshark_ok, ue_list, choice, entries, selected, main_src_ip,
                   interface>>
    /\ UNCHANGED samplerVars

\* ok, msg = probe_capture_permissions(interface)
Probe ==
    /\ pc = "probe"
    /\ probe_out' = probe_capture_permissions(probe_in)
    /\ probed' = Append(probed, interface)
    /\ pc' = "probed"
    /\ UNCHANGED <<mode, count_limit, bound, engine_limit, capture_iface,
                   proc, signals, emitted, pipe,
                   packet_count, cur, trace, out, interrupts, handled, exit_status,
                   probe_in>>
    /\ UNCHANGED <<args, tshark_ok, ue_list, choice, entries, selected, main_src_ip,
                   interface>>
    /\ UNCHANGED samplerVars

NextProbe == Probe

SpecProbe == InitProbe /\ [][NextProbe]_vars

(***************************************************************************)
(* select_ue_interactive.  A line typed by the operator is a sequence of   *)
(* characters.                                                             *)
(***************************************************************************)
\* the interfaces val<i> of the host, each with its address
UE(i) == <<"val" \o ToString(i), "10.61.0." \o ToString(i + 1)>>

\* list_active_ues(): the val* interfaces that have an address, sorted by name
RECURSIVE UEListOf(_, _)
UEListOf(S, i) ==
    IF i > MaxUEs THEN <<>>
    ELSE (IF i \in S THEN <<UE(i)>> ELSE <<>>) \o UEListOf(S, i + 1)

\* two interfaces that are configured with the same address
SharedAddress == <<<<"val1", "10.61.0.2">>, <<"val2", "10.61.0.2">>>>

UELists == {UEListOf(S, 1) : S \in SUBSET (1..MaxUEs)} \cup {SharedAddress}

\* the lines the operator may type: numbers in and out of the range, with
\* and without surrounding blanks and signs, the quit letter, other text
EntryTexts ==
    {<<"0">>, <<"1">>, <<"2">>, <<"3">>, <<"4">>, <<"5">>, <<"1", "0">>, <<"0", "2">>,
     <<"-", "1">>, <<"+", "1">>, <<" ", "2", " ">>, <<"1", " ", "2">>, <<"1", ".", "0">>,
     <<"q">>, <<"Q">>, <<" ", "q">>, <<"q", "1">>, <<"x">>, <<"-">>, <<" ">>, <<>>}

IsDigit(c) == c \in {ToString(d) : d \in 0..9}
DigitValue(c) == CHOOSE d \in 0..9 : ToString(d) = c

RECURSIVE DigitsValue(_)
DigitsValue(cs) ==
    IF cs = <<>> THEN 0
    ELSE 10 * DigitsValue(SubSeq(cs, 1, Len(cs) - 1)) + DigitValue(cs[Len(cs)])

\* int(choice): an optional sign and at least one digit, or ValueError
ParseInt(cs) ==
    LET signed == cs # <<>> /\ Head(cs) \in {"+", "-"}
        digits == IF signed THEN Tail(cs) ELSE cs
    IN  IF digits = <<>> \/ \E i \in DOMAIN digits : ~IsDigit(digits[i])
        THEN [ok |-> FALSE, value |-> 0]
        ELSE [ok |-> TRUE,
              value |-> (IF Head(cs) = "-" THEN -1 ELSE 1) * DigitsValue(digits)]

MenuBlock(list) == Printed("menu", "Active UE Interfaces:", Len(list))

PromptLine == Printed("prompt", "\nSelect UE number (or 'q' to quit): ", 0)

RangeLine(n) == Printed("range", "Please enter a number between 1 and " \o ToString(n), n)

InvalidLine == Printed("invalid", "Invalid input. Please enter a number.", 0)

CancelledLine == Printed("cancelled", "\nCancelled by user", 0)

NoUELine == Printed("error", "No active UE interfaces with IP addresses found.", 0)

\* ue_list = list_active_ues(), the test for an empty list, and the menu
SelectStart ==
    /\ pc = "select"
    /\ ue_list' \in UELists
    /\ IF ue_list' = <<>>
       THEN /\ out' = Append(out, NoUELine)
            /\ pc' = "exited"
            /\ exit_status' = "1"
       ELSE /\ out' = Append(out, MenuBlock(ue_list'))
            /\ pc' = "prompt"
            /\ UNCHANGED exit_status
    /\ UNCHANGED <<mode, count_limit, bound, engine_limit, capture_iface,
                   proc, signals, emitted, pipe,
                   packet_count, cur, trace, interrupts, handled>>
    /\ UNCHANGED probeVars
    /\ UNCHANGED samplerVars
    /\ UNCHANGED <<args, tshark_ok, choice, entries, selected, main_src_ip, interface,
                   probed>>

\* the body of the try statement with the range test taken as idx >= 1 alone
InputNoUpper(line) ==
    /\ pc = "prompt"
    /\ entries < MaxEntries
    /\ entries' = entries + 1
    /\ choice' = Strip(line)
    /\ LET idx == ParseInt(choice')
       IN  IF Lower(choice') = <<"q">>
           THEN /\ out' = Append(out, PromptLine)
                /\ pc' = "exited"
                /\ exit_status' = "0"
                /\ UNCHANGED selected
           ELSE IF ~idx.ok
           THEN /\ out' = Append(out, PromptLine)
                /\ pc' = "invalid"
                /\ UNCHANGED <<exit_status, selected>>
           ELSE IF 1 <= idx.value
           THEN /\ out' = Append(out, PromptLine)
                /\ selected' = ue_list[IF idx.value <= Len(ue_list) THEN idx.value
                                       ELSE Len(ue_list)]
                /\ pc' = "selected"
                /\ UNCHANGED exit_status
           ELSE /\ out' = out \o <<PromptLine, RangeLine(Len(ue_list))>>
                /\ pc' = "prompt"
                /\ UNCHANGED <<exit_status, selected>>
    /\ UNCHANGED <<mode, count_limit, bound, engine_limit, capture_iface,
                   proc, signals, emitted, pipe,
                   packet_count, cur, trace, interrupts, handled>>
    /\ UNCHANGED probeVars
    /\ UNCHANGED samplerVars
    /\ UNCHANGED <<args, tshark_ok, ue_list, main_src_ip, interface, probed>>

\* the body of the try statement when input() returns a line: strip, the
\* test for 'q', int(), the range test and the message of its else branch
Input(line) ==
    /\ pc = "prompt"
    /\ entries < MaxEntries
    /\ entries' = entries + 1
    /\ choice' = Strip(line)
    /\ LET idx == ParseInt(choice')
       IN  IF Lower(choice') = <<"q">>
           THEN /\ out' = Append(out, PromptLine)
                /\ pc' = "exited"
                /\ exit_status' = "0"
                /\ UNCHANGED selected
           ELSE IF ~idx.ok
           THEN /\ out' = Append(out, PromptLine)
                /\ pc' = "invalid"
                /\ UNCHANGED <<exit_status, selected>>
           ELSE IF 1 <= idx.value /\ idx.value <= Len(ue_list)
           THEN /\ out' = Append(out, PromptLine)
                /\ selected' = ue_list[idx.value]
                /\ pc' = "selected"
                /\ UNCHANGED exit_status
           ELSE /\ out' = out \o <<PromptLine, RangeLine(Len(ue_list))>>
                /\ pc' = "prompt"
                /\ UNCHANGED <<exit_status, selected>>
    /\ UNCHANGED <<mode, count_limit, bound, engine_limit, capture_iface,
                   proc, signals, emitted, pipe,
                   packet_count, cur, trace, interrupts, handled>>
    /\ UNCHANGED probeVars
    /\ UNCHANGED samplerVars
    /\ UNCHANGED <<args, tshark_ok, ue_list, main_src_ip, interface, probed>>

\* input() raises EOFError: the except (EOFError, KeyboardInterrupt) clause
InputEOF ==
    /\ pc = "prompt"
    /\ entries < MaxEntries
    /\ entries' = entries + 1
    /\ out' = out \o <<PromptLine, CancelledLine>>
    /\ pc' = "exited"
    /\ exit_status' = "0"
    /\ UNCHANGED <<mode, count_limit, bound, engine_limit, capture_iface,
                   proc, signals, emitted, pipe,
                   packet_count, cur, trace, interrupts, handled>>
    /\ UNCHANGED probeVars
    /\ UNCHANGED samplerVars
    /\ UNCHANGED <<args, tshark_ok, ue_list, choice, selected, main_src_ip, interface,
                   probed>>

\* the except ValueError clause
InvalidInput ==
    /\ pc = "invalid"
    /\ out' = Append(out, InvalidLine)
    /\ pc' = "prompt"
    /\ UNCHANGED <<mode, count_limit, bound, engine_limit, capture_iface,
                   proc, signals, emitted, pipe,
                   packet_count, cur, trace, interrupts, handled, exit_status>>
    /\ UNCHANGED probeVars
    /\ UNCHANGED samplerVars
    /\ UNCHANGED mainVars

(***************************************************************************)
(* main, from the return of parse_args() to the end of the program.        *)
(***************************************************************************)
TsharkMissingLine == Printed("error", "Error: tshark is not installed or not in PATH", 0)

NoTargetLine == Printed("error", "\nError: Either --src-ip or --select must be specified", 0)

FallbackLine == Printed("warning", "using capture interface 'any'", 0)

SelectedLine(iface) == Printed("selected", "\nSelected UE: " \o iface, 0)

ProbeFailedLine == Printed("error", "\nError: Unable to open capture interface.", 0)

FaultLine == Printed("error", "\nError: ", 0)

\* if not check_tshark(): the two prints and sys.exit(1)
CheckTshark ==
    /\ pc = "check_tshark"
    /\ tshark_ok' \in {"yes", "no"}
    /\ IF tshark_ok' = "no"
       THEN /\ out' = Append(out, TsharkMissingLine)
            /\ pc' = "exited"
            /\ exit_status' = "1"
       ELSE /\ pc' = "target"
            /\ UNCHANGED <<out, exit_status>>
    /\ UNCHANGED <<mode, count_limit, bound, engine_limit, capture_iface,
                   proc, signals, emitted, pipe,
                   packet_count, cur, trace, interrupts, handled>>
    /\ UNCHANGED probeVars
    /\ UNCHANGED samplerVars
    /\ UNCHANGED <<args, ue_list, choice, entries, selected, main_src_ip, interface,
                   probed>>

\* the first (iface, ip) of the list with ip == src_ip, or None
MatchedIface(list, ip) ==
    LET hits == {i \in DOMAIN list : list[i][2] = ip}
    IN  IF hits = {} THEN None
        ELSE list[CHOOSE i \in hits : \A j \in hits : i <= j][1]

\* the statement if args.select: ... elif args.src_ip: ... else: ...
\* up to the call of select_ue_interactive in its first branch
Target ==
    /\ pc = "target"
    /\ IF args.select
       THEN /\ pc' = "select"
            /\ UNCHANGED <<out, exit_status, main_src_ip, interface, ue_list>>
       ELSE IF args.src_ip # None
       THEN /\ main_src_ip' = args.src_ip
            /\ IF interface = None
               THEN /\ ue_list' \in UELists
                    /\ LET matched_iface == MatchedIface(ue_list', args.src_ip)
                       IN  IF matched_iface # None
                           THEN /\ interface' = matched_iface
                                /\ UNCHANGED out
                           ELSE /\ interface' = "any"
                                /\ out' = Append(out, FallbackLine)
               ELSE UNCHANGED <<interface, ue_list, out>>
            /\ pc' = "probe_call"
            /\ UNCHANGED exit_status
       ELSE /\ out' = Append(out, NoTargetLine)
            /\ pc' = "exited"
            /\ exit_status' = "1"
            /\ UNCHANGED <<main_src_ip, interface, ue_list>>
    /\ UNCHANGED <<mode, count_limit, bound, engine_limit, capture_iface,
                   proc, signals, emitted, pipe,
                   packet_count, cur, trace, interrupts, handled>>
    /\ UNCHANGED probeVars
    /\ UNCHANGED samplerVars
    /\ UNCHANGED <<args, tshark_ok, choice, entries, selected, probed>>

\* iface, src_ip = select_ue_interactive(), the two prints, and
\* if not interface: interface = iface
Selected ==
    /\ pc = "selected"
    /\ main_src_ip' = selected[2]
    /\ out' = Append(out, SelectedLine(selected[1]))
    /\ interface' = IF interface = None THEN selected[1] ELSE interface
    /\ pc' = "probe_call"
    /\ UNCHANGED <<mode, count_limit, bound, engine_limit, capture_iface,
                   proc, signals, emitted, pipe,
                   packet_count, cur, trace, interrupts, handled, exit_status>>
    /\ UNCHANGED probeVars
    /\ UNCHANGED samplerVars
    /\ UNCHANGED <<args, tshark_ok, ue_list, choice, entries, selected, probed>>

\* the outcomes of the probe's subprocess.run that a run of main meets
MainProbeOutcomes ==
    {[kind |-> "completed", returncode |-> 0, stderr |-> <<>>, errmsg |-> <<>>],
     [kind |-> "completed", returncode |-> 1,
      stderr |-> <<"Permission", " ", "denied">>, errmsg |-> <<>>],
     [kind |-> "completed", returncode |-> 2, stderr |-> <<"tshark:">>, errmsg |-> <<>>],
     [kind |-> "timeout", returncode |-> 0, stderr |-> <<>>, errmsg |-> <<>>],
     [kind |-> "notfound", returncode |-> 0, stderr |-> <<>>, errmsg |-> <<>>]}

\* subprocess.run of the probe ends with outcome r
ProbeRun(r) ==
    /\ pc = "probe_call"
    /\ probe_in' = r
    /\ pc' = "probe"
    /\ UNCHANGED <<mode, count_limit, bound, engine_limit, capture_iface,
                   proc, signals, emitted, pipe,
                   packet_count, cur, trace, out, interrupts, handled, exit_status,
                   probe_out>>
    /\ UNCHANGED mainVars
    /\ UNCHANGED samplerVars

\* the test on ok with the branch never taken
ProbeCheckIgnored ==
    /\ pc = "probed"
    /\ pc' = "entry"
    /\ UNCHANGED <<mode, count_limit, bound, engine_limit, capture_iface,
                   proc, signals, emitted, pipe,
                   packet_count, cur, trace, interrupts, handled, out, exit_status>>
    /\ UNCHANGED probeVars
    /\ UNCHANGED samplerVars
    /\ UNCHANGED mainVars

\* if not ok: the prints and sys.exit(1); otherwise the call of run_*_monitor
ProbeCheck ==
    /\ pc = "probed"
    /\ IF ~probe_out.ok
       THEN /\ out' = Append(out, ProbeFailedLine)
            /\ pc' = "exited"
            /\ exit_status' = "1"
       ELSE /\ pc' = "entry"
            /\ UNCHANGED <<out, exit_status>>
    /\ UNCHANGED <<mode, count_limit, bound, engine_limit, capture_iface,
                   proc, signals, emitted, pipe,
                   packet_count, cur, trace, interrupts, handled>>
    /\ UNCHANGED probeVars
    /\ UNCHANGED samplerVars
    /\ UNCHANGED mainVars

\* subprocess.Popen raises (stdbuf or tshark cannot be executed): no except
\* clause of run_*_monitor matches, main prints the error and calls sys.exit(1)
PopenFails ==
    /\ pc = "popen"
    /\ out' = Append(out, FaultLine)
    /\ pc' = "exited"
    /\ exit_status' = "1"
    /\ UNCHANGED <<mode, count_limit, bound, engine_limit, capture_iface,
                   proc, signals, emitted, pipe,
                   packet_count, cur, trace, interrupts, handled>>
    /\ UNCHANGED probeVars
    /\ UNCHANGED samplerVars
    /\ UNCHANGED mainVars

\* reading from the pipe or printing raises an Exception (the stream holds
\* bytes that do not decode, stdout is closed): no except clause of
\* run_*_monitor matches, main prints the error and calls sys.exit(1)
LoopFault ==
    /\ pc \in {"read", "print"}
    /\ out' = Append(out, FaultLine)
    /\ pc' = "exited"
    /\ exit_status' = "1"
    /\ UNCHANGED <<mode, count_limit, bound, engine_limit, capture_iface,
                   proc, signals, emitted, pipe,
                   packet_count, cur, trace, interrupts, handled>>
    /\ UNCHANGED probeVars
    /\ UNCHANGED samplerVars
    /\ UNCHANGED mainVars

\* the statements of main and of select_ue_interactive
InMain == {"check_tshark", "target", "select", "prompt", "invalid", "selected",
           "probe_call", "probe", "probed"}

\* KeyboardInterrupt outside run_*_monitor: the except clause of line 110
\* catches it in the try statement of the selector; no other clause does
InterruptMain ==
    /\ pc \in InMain
    /\ interrupts < MaxInterrupts
    /\ interrupts' = interrupts + 1
    /\ pc' = "exited"
    /\ IF pc = "prompt"
       THEN /\ out' = out \o <<PromptLine, CancelledLine>>
            /\ exit_status' = "0"
       ELSE /\ exit_status' = "sigint"
            /\ UNCHANGED out
    /\ UNCHANGED <<mode, count_limit, bound, engine_limit, capture_iface,
                   proc, signals, emitted, pipe,
                   packet_count, cur, trace, handled>>
    /\ UNCHANGED probeVars
    /\ UNCHANGED samplerVars
    /\ UNCHANGED mainVars

\* the records of the engine and the lines of the operator in a run of main
MainRecords(m) ==
    {EngineLine(IF m = "simple"
                THEN <<"10.0.0.1", "", "10.0.0.2", "", "6", "">>
                ELSE <<"10.0.0.1", "", "80", "", "10.0.0.2", "", "443", "", "6", "">>)}

MainEntryTexts == {<<"1">>, <<"3">>, <<"x">>, <<"q">>}

MainArgs == [select : BOOLEAN, src_ip : {None, "10.61.0.2"}, interface : {None, "eth0"}]

InitMain ==
    /\ mode \in Modes
    /\ count_limit \in {0, 1}
    /\ pc = "check_tshark"
    /\ bound = {}
    /\ engine_limit = 0
    /\ capture_iface = None
    /\ proc = "none"
    /\ signals = <<>>
    /\ emitted = 0
    /\ pipe = <<>>
    /\ packet_count = 0
    /\ cur = NoTuple
    /\ trace = <<>>
    /\ out = <<>>
    /\ interrupts = 0
    /\ handled = FALSE
    /\ exit_status = "running"
    /\ probe_in = NoProbe
    /\ probe_out = NoResult
    /\ args \in MainArgs
    /\ tshark_ok = "unchecked"
    /\ ue_list = <<>>
    /\ choice = <<>>
    /\ entries = 0
    /\ selected = <<>>
    /\ main_src_ip = None
    /\ interface = args.interface
    /\ probed = <<>>
    /\ NoSampler

NextMain ==
    \/ CheckTshark
    \/ Target
    \/ SelectStart
    \/ \E line \in MainEntryTexts : Input(line)
    \/ InputEOF
    \/ InvalidInput
    \/ Selected
    \/ \E r \in MainProbeOutcomes : ProbeRun(r)
    \/ Probe
    \/ ProbeCheck
    \/ InterruptMain
    \/ Entry
    \/ Popen
    \/ PopenFails
    \/ InitCount
    \/ \E line \in MainRecords(mode) : EngineEmit(line)
    \/ EngineExit
    \/ ReadRecord
    \/ PrintLine
    \/ LoopFault
    \/ EndOfStream
    \/ WaitExit
    \/ Notice
    \/ Return
    \/ Interrupt
    \/ Summary
    \/ Terminate
    \/ GraceExited
    \/ GraceTimeout
    \/ Kill

SpecMain == InitMain /\ [][NextMain]_vars

(***************************************************************************)
(* The selector on its own, with every line of EntryTexts.                 *)
(***************************************************************************)
InitSelect ==
    /\ mode \in Modes
    /\ count_limit = 0
    /\ pc = "select"
    /\ bound = {}
    /\ engine_limit = 0
    /\ capture_iface = None
    /\ proc = "none"
    /\ signals = <<>>
    /\ emitted = 0
    /\ pipe = <<>>
    /\ packet_count = 0
    /\ cur = NoTuple
    /\ trace = <<>>
    /\ out = <<>>
    /\ interrupts = 0
    /\ handled = FALSE
    /\ exit_status = "running"
    /\ probe_in = NoProbe
    /\ probe_out = NoResult
    /\ args = [select |-> TRUE, src_ip |-> None, interface |-> None]
    /\ tshark_ok = "yes"
    /\ ue_list = <<>>
    /\ choice = <<>>
    /\ entries = 0
    /\ selected = <<>>
    /\ main_src_ip = None
    /\ interface = None
    /\ probed = <<>>
    /\ NoSampler

NextSelect ==
    \/ SelectStart
    \/ \E line \in EntryTexts : Input(line)
    \/ InputEOF
    \/ InvalidInput
    \/ InterruptMain

SpecSelect == InitSelect /\ [][NextSelect]_vars

(***************************************************************************)
(* The throughput sampler, scripts/ue_tx_rx_monitor.py, from the filtered  *)
(* interface list on.  The poll interval is 1 second and the counters stay *)
(* below 1000, so that a rate is the delta with one decimal and a byte     *)
(* count is rendered in the unit B.                                        *)
(***************************************************************************)
Stats == <<"rx_packets", "rx_bytes", "tx_packets", "tx_bytes">>

\* the value of a counter of an interface that carried l rounds of traffic
CounterAt(stat, l) ==
    CASE stat = "rx_packets" -> l
      [] stat = "rx_bytes" -> 60 * l
      [] stat = "tx_packets" -> 2 * l
      [] stat = "tx_bytes" -> 90 * l

\* read_stat of a counter file that cannot be read or parsed
Unread == -1

\* what the four calls of read_stat return for one interface: the counters
\* after l rounds of traffic, those of the set missing unreadable
Reading(l, missing) ==
    [k \in 1..4 |-> IF Stats[k] \in missing THEN Unread ELSE CounterAt(Stats[k], l)]

\* the counter files that are unreadable together: none, one of them, all
MissingSets ==
    {{}} \cup {{Stats[k]} : k \in 1..4} \cup {{Stats[k] : k \in 1..4}}

Readings == {Reading(l, missing) : l \in 0..MaxLevel, missing \in MissingSets}

\* read_stat(...) or 0
OrZero(v) == IF v = Unread \/ v = 0 THEN 0 ELSE v

\* format_rate(delta, 1.0): f'{delta / 1.0:,.1f}/s'
format_rate(delta) == ToString(delta) \o ".0/s"

\* human_bytes(n) for |n| < 1024: f"{n:3.1f}B"
human_bytes(n) == ToString(n) \o ".0B"

NARow(iface) == <<iface, "N/A", "N/A", "N/A", "N/A", "N/A", "N/A", "N/A", "N/A", "N/A", "N/A">>

\* the tuple appended to rows for counters that were all read
Row(iface, now, before) ==
    LET drp == now[1] - before[1]
        drb == now[2] - before[2]
        dtp == now[3] - before[3]
        dtb == now[4] - before[4]
    IN  <<iface, ToString(now[1]), format_rate(drp), human_bytes(drb), format_rate(drb),
          human_bytes(now[2]), ToString(now[3]), format_rate(dtp), human_bytes(dtb),
          format_rate(dtb), human_bytes(now[4])>>

IfaceLists == {<<"val1">>, <<"val1", "val2">>}

InitSampler ==
    /\ mode = "simple"
    /\ count_limit = 0
    /\ pc = "baseline"
    /\ bound = {}
    /\ engine_limit = 0
    /\ capture_iface = None
    /\ proc = "none"
    /\ signals = <<>>
    /\ emitted = 0
    /\ pipe = <<>>
    /\ packet_count = 0
    /\ cur = NoTuple
    /\ trace = <<>>
    /\ out = <<>>
    /\ interrupts = 0
    /\ handled = FALSE
    /\ exit_status = "running"
    /\ probe_in = NoProbe
    /\ probe_out = NoResult
    /\ args = [select |-> FALSE, src_ip |-> None, interface |-> None]
    /\ tshark_ok = "unchecked"
    /\ ue_list = <<>>
    /\ choice = <<>>
    /\ entries = 0
    /\ selected = <<>>
    /\ main_src_ip = None
    /\ interface = None
    /\ probed = <<>>
    /\ ifaces \in IfaceLists
    /\ sample_limit \in 0..MaxSamples
    /\ prev = <<>>
    /\ sample = 0
    /\ rows = <<>>
    /\ counters = <<>>
    /\ iface_idx = 0
    /\ tables = 0
    /\ last_full = <<>>
    /\ accounted = <<>>

tapVars == <<mode, count_limit, bound, engine_limit, capture_iface, proc, signals, emitted, pipe,
             packet_count, cur, trace, handled, probe_in, probe_out>>

\* prev = {} and the loop that fills it with read_stat(...) or 0; sample = 0
Baseline(r) ==
    /\ pc = "baseline"
    /\ prev' = [i \in DOMAIN ifaces |-> [k \in 1..4 |-> OrZero(r[i][k])]]
    /\ last_full' = prev'
    /\ accounted' = prev'
    /\ sample' = 0
    /\ pc' = "sleep"
    /\ UNCHANGED <<ifaces, sample_limit, rows, counters, iface_idx, tables, out, interrupts,
                   exit_status>>
    /\ UNCHANGED tapVars
    /\ UNCHANGED mainVars

\* time.sleep(args.interval); sample += 1; rows = []; timestamp = ...
Sleep ==
    /\ pc = "sleep"
    /\ sample < MaxSamples
    /\ sample' = sample + 1
    /\ rows' = <<>>
    /\ iface_idx' = 1
    /\ pc' = "poll"
    /\ UNCHANGED <<ifaces, sample_limit, prev, counters, tables, out, interrupts,
                   exit_status, last_full, accounted>>
    /\ UNCHANGED tapVars
    /\ UNCHANGED mainVars

\* the history of the reads of interface i after its counters were read as r
\* and the deltas against before were reported (none when a counter is unread)
History(i, r, before) ==
    LET full == \A k \in 1..4 : r[k] # Unread
    IN  /\ last_full' = IF full THEN [last_full EXCEPT ![i] = r] ELSE last_full
        /\ accounted' = IF full
                        THEN [accounted EXCEPT
                                 ![i] = [k \in 1..4 |-> @[k] + (r[k] - before[k])]]
                        ELSE accounted

\* the loop body with prev updated before the test for an unread counter
PollIfaceStoresUnread(r) ==
    /\ pc = "poll"
    /\ iface_idx <= Len(ifaces)
    /\ prev' = [prev EXCEPT ![iface_idx] = [k \in 1..4 |-> OrZero(r[k])]]
    /\ rows' = Append(rows, IF \E k \in 1..4 : r[k] = Unread
                             THEN NARow(ifaces[iface_idx])
                             ELSE Row(ifaces[iface_idx], r, prev[iface_idx]))
    /\ counters' = r
    /\ History(iface_idx, r, prev[iface_idx])
    /\ iface_idx' = iface_idx + 1
    /\ UNCHANGED <<ifaces, sample_limit, sample, tables, out, interrupts, exit_status, pc>>
    /\ UNCHANGED tapVars
    /\ UNCHANGED mainVars

\* the loop body without the assignment to prev[iface]
PollIfaceKeepsPrev(r) ==
    /\ pc = "poll"
    /\ iface_idx <= Len(ifaces)
    /\ IF \E k \in 1..4 : r[k] = Unread
       THEN rows' = Append(rows, NARow(ifaces[iface_idx]))
       ELSE rows' = Append(rows, Row(ifaces[iface_idx], r, prev[iface_idx]))
    /\ counters' = r
    /\ History(iface_idx, r, prev[iface_idx])
    /\ iface_idx' = iface_idx + 1
    /\ UNCHANGED <<ifaces, sample_limit, prev, sample, tables, out, interrupts, exit_status,
                   pc>>
    /\ UNCHANGED tapVars
    /\ UNCHANGED mainVars

\* one iteration of "for iface in ifaces": the four reads, the N/A row and
\* continue, or the deltas, the row and the update of prev
PollIface(r) ==
    /\ pc = "poll"
    /\ iface_idx <= Len(ifaces)
    /\ IF \E k \in 1..4 : r[k] = Unread
       THEN /\ rows' = Append(rows, NARow(ifaces[iface_idx]))
            /\ UNCHANGED prev
       ELSE /\ rows' = Append(rows, Row(ifaces[iface_idx], r, prev[iface_idx]))
            /\ prev' = [prev EXCEPT ![iface_idx] = r]
    /\ counters' = r
    /\ History(iface_idx, r, prev[iface_idx])
    /\ iface_idx' = iface_idx + 1
    /\ UNCHANGED <<ifaces, sample_limit, sample, tables, out, interrupts, exit_status, pc>>
    /\ UNCHANGED tapVars
    /\ UNCHANGED mainVars

TableLine(n) == Printed("table", "Sample: " \o ToString(n), n)

StoppedLine == Printed("stopped", "\nStopped by user", 0)

\* print_table(rows, timestamp, sample) and the test on args.count
PrintTable ==
    /\ pc = "poll"
    /\ iface_idx > Len(ifaces)
    /\ out' = Append(out, TableLine(sample))
    /\ tables' = tables + 1
    /\ IF sample_limit # 0 /\ sample >= sample_limit
       THEN pc' = "exited" /\ exit_status' = "0"
       ELSE pc' = "sleep" /\ UNCHANGED exit_status
    /\ UNCHANGED <<ifaces, sample_limit, prev, sample, rows, counters, iface_idx, interrupts,
                   last_full, accounted>>
    /\ UNCHANGED tapVars
    /\ UNCHANGED mainVars

\* KeyboardInterrupt in the try statement of the loop
SamplerInterrupt ==
    /\ pc \in {"sleep", "poll"}
    /\ interrupts < MaxInterrupts
    /\ interrupts' = interrupts + 1
    /\ out' = Append(out, StoppedLine)
    /\ pc' = "exited"
    /\ exit_status' = "0"
    /\ UNCHANGED <<ifaces, sample_limit, prev, sample, rows, counters, iface_idx, tables,
                   last_full, accounted>>
    /\ UNCHANGED tapVars
    /\ UNCHANGED mainVars

NextSampler ==
    \/ \E r \in [DOMAIN ifaces -> Readings] : Baseline(r)
    \/ Sleep
    \/ \E r \in Readings : PollIface(r)
    \/ PrintTable
    \/ SamplerInterrupt

SpecSampler == InitSampler /\ [][NextSampler]_vars

(***************************************************************************)
(* Properties.                                                             *)
(***************************************************************************)
\* the number of fields a raw record splits into on the separator
FieldCount(raw) == 1 + Cardinality({i \in 1..Len(raw) : raw[i] = SEP})

\* the numbered packet lines printed so far
Lines == SelectSeq(out, LAMBDA e : e.kind = "line")

CountKind(kind) == Len(SelectSeq(out, LAMBDA e : e.kind = kind))

Tuples == SelectSeq(trace, LAMBDA e : e.outcome = "tuple")

LastRead == trace[Len(trace)]
LastParts == Split(Strip(LastRead.raw))

\* a step that reads a record from the stream
ReadStep == Len(trace') = Len(trace) + 1

\* the step yields no tuple: nothing is counted or about to be printed, and
\* the loop is at its next read
YieldsNoTuple ==
    /\ trace'[Len(trace')].outcome = "skip"
    /\ packet_count' = packet_count
    /\ out' = out
    /\ pc' = "read"

\* the last record read has the fields the loop body indexes
LastDecoded ==
    /\ trace # <<>>
    /\ Strip(LastRead.raw) # <<>>
    /\ FieldCount(LastRead.raw) >= (IF mode = "simple" THEN 4 ELSE 8)

\* C1 as stated: a record of fewer fields than the layout of the mode (6 in
\* simple mode, 10 in 5-tuple mode) yields no tuple: nothing is rendered, the
\* counter is unchanged and the loop continues.
C1_FewerThanLayoutYieldsNoTuple ==
    [][(ReadStep /\ FieldCount(Head(pipe)) < NumFields(mode)) => YieldsNoTuple]_vars

\* C1 amended: a record of fewer than 4 fields in simple mode, fewer than 8 in
\* 5-tuple mode, yields no tuple: nothing is rendered, the counter is unchanged
\* and the loop continues with the next record.
C1_ShortRecordYieldsNoTuple ==
    [][(ReadStep /\ FieldCount(Head(pipe)) < (IF mode = "simple" THEN 4 ELSE 8))
        => YieldsNoTuple]_vars

C1_ShortRecordRead ==
    /\ trace # <<>>
    /\ FieldCount(LastRead.raw) = (IF mode = "simple" THEN 3 ELSE 7)
    /\ LastParts[1] # ""
    /\ LastRead.outcome = "skip"
    /\ packet_count = 0
    /\ pc = "read"

\* the value resolved from an IPv4 field and its IPv6 variant
V4Wins(v4, v6, value) ==
    /\ v4 # "" => value = v4
    /\ (v4 = "" /\ v6 # "") => value = v6

FieldOrEmpty(parts, i) == IF i <= Len(parts) THEN parts[i] ELSE ""

\* C2: in both modes, when both the IPv4 and the IPv6 variant of the source
\* address, the destination address or the protocol are non-empty the decoded
\* value is the IPv4 one, and when only the IPv6 variant is non-empty it is the
\* IPv6 one; nothing else enters the result.
C2_IPv4Wins ==
    LastDecoded =>
        LET p == LastParts
            a == IF mode = "simple" THEN 3 ELSE 5
            q == IF mode = "simple" THEN 5 ELSE 9
            v4 == FieldOrEmpty(p, q)
            v6 == FieldOrEmpty(p, q + 1)
        IN  /\ V4Wins(p[1], p[2], cur.src)
            /\ V4Wins(p[a], p[a + 1], cur.dst)
            /\ v4 # "" => cur.protocol = map_protocol(v4)
            /\ (v4 = "" /\ v6 # "") => cur.protocol = map_protocol(v6)

C2_BothVariantsRead ==
    /\ LastDecoded
    /\ LastParts[1] # "" /\ LastParts[2] # ""
    /\ LastRead.outcome = "tuple"
    /\ LastRead.tuple.src = LastParts[1]
    /\ CountKind("line") = 1

\* C3: the protocol label is a function of the resolved protocol field alone:
\* "1" gives ICMP, "6" TCP, "17" UDP, "58" ICMPv6, any other non-empty value
\* itself, and the empty value (both fields empty or missing) gives "IP".
C3_ProtocolMapping ==
    LastDecoded =>
        LET p == LastParts
            q == IF mode = "simple" THEN 5 ELSE 9
            num == IF FieldOrEmpty(p, q) # "" THEN FieldOrEmpty(p, q)
                   ELSE FieldOrEmpty(p, q + 1)
        IN  cur.protocol = CASE num = "1" -> "ICMP"
                             [] num = "6" -> "TCP"
                             [] num = "17" -> "UDP"
                             [] num = "58" -> "ICMPv6"
                             [] num = "" -> "IP"
                             [] OTHER -> num

C3_MissingProtocolFields ==
    /\ LastDecoded
    /\ FieldCount(LastRead.raw) = (IF mode = "simple" THEN 4 ELSE 8)
    /\ LastRead.outcome = "tuple"
    /\ LastRead.tuple.protocol = "IP"
    /\ CountKind("line") = 1

CountersInOrder == \A k \in 1..Len(Lines) : Lines[k].n = k

\* the loop over the stream is over: the stream ended or the run was interrupted
LoopLeft == pc \notin {"entry", "popen", "init_count", "read", "print"}

\* C5: the counter starts at 0, the k-th rendered line carries counter k,
\* discarded records never advance the counter, and a run that decoded N
\* tuples ends with N as its last printed counter.
C5_CounterMatchesLines ==
    /\ "packet_count" \in bound =>
          /\ trace = <<>> => packet_count = 0
          /\ packet_count = Len(Tuples)
    /\ CountersInOrder
    /\ LoopLeft => Len(Lines) = Len(Tuples)

\* the diagnostic text mentions a permission condition
MentionsPermission(text) == \E i \in 1..Len(text) : text[i] \in {"Permission", "permission"}

ScenarioARecord == <<"10.0.0.1", "|", "|", "10.0.0.2", "|", "|", "6", "|", "\n">>
ScenarioALine == "     1  10.0.0.1        ---> 10.0.0.2         [TCP]"

\* C7: in simple mode the record "10.0.0.1||10.0.0.2||6|" read first decodes
\* to source 10.0.0.1, destination 10.0.0.2, protocol TCP, and is rendered as
\* the line "     1  10.0.0.1        ---> 10.0.0.2         [TCP]".
C7_ScenarioA ==
    (mode = "simple" /\ trace # <<>> /\ trace[1].raw = ScenarioARecord) =>
        /\ trace[1].outcome = "tuple"
        /\ trace[1].tuple.src = "10.0.0.1"
        /\ trace[1].tuple.dst = "10.0.0.2"
        /\ trace[1].tuple.protocol = "TCP"
        /\ (interrupts = 0 /\ ~(pc = "print" /\ Len(trace) = 1)) => Lines # <<>>
        /\ Lines # <<>> => Lines[1].text = ScenarioALine

C7_ScenarioARendered ==
    /\ mode = "simple"
    /\ Len(trace) = 1
    /\ trace[1].raw = ScenarioARecord
    /\ Len(Lines) = 1
    /\ Lines[1].text = ScenarioALine

\* C8: when the stream ends by engine exit without an interrupt and no tuple
\* was rendered, the notice is printed exactly once and no numbered line is;
\* when a tuple was rendered the notice is never printed.
C8_NoPacketsNotice ==
    /\ (interrupts = 0 /\ pc \in {"return", "exited"}) =>
          CountKind("notice") = (IF Lines = <<>> THEN 1 ELSE 0)
    /\ Lines # <<>> => CountKind("notice") = 0
    /\ CountKind("notice") <= 1

C8_AllDiscardedNotice ==
    /\ interrupts = 0
    /\ pc = "exited"
    /\ Len(trace) = 2
    /\ Lines = <<>>
    /\ CountKind("notice") = 1

InterruptOutcome ==
    /\ exit_status = "0"
    /\ CountKind("summary") = 1
    /\ \A i \in DOMAIN out : out[i].kind = "summary" => out[i].n = Len(Lines)
    /\ proc # "running"

\* C10: after an operator interrupt delivered anywhere between the entry into
\* run_*_monitor and its return, no further record is read or rendered, a
\* summary with the number of lines rendered so far is printed, the subprocess
\* is shut down, and the program exits with status 0.
C10_InterruptHandled ==
    [][/\ interrupts >= 1 => (trace' = trace /\ Lines' = Lines)
       /\ (pc' = "exited" /\ interrupts' = 1) => InterruptOutcome']_vars

\* the subprocess received the kill signal at position i of the signals sent
KilledAt(i) == signals[i] = "KILL"

\* C11: on cancellation the subprocess goes Running -> Terminating ->
\* Killed|Exited: the kill signal is sent only to a subprocess that was sent
\* the terminate signal before, only from the handler after its wait for the
\* exit, and only while the subprocess is still running; a subprocess that
\* exited within the grace period is not signalled again.
C11_TerminateThenKill ==
    [][/\ \A i \in DOMAIN signals' :
              KilledAt(i)' => (i > 1 /\ signals'[i - 1] = "TERM")
       /\ Len(signals') > Len(signals) => (handled /\ proc = "running")
       /\ proc' = "killed" => "TERM" \in {signals'[i] : i \in DOMAIN signals'}]_vars

\* the messages main printed before an exit with status 1
Reported(line) == \E i \in DOMAIN out : out[i] = line

\* C12: the program ends with status 0 or 1 and no other; with 0 when the
\* run completed and when the operator interrupted it at any point (selection,
\* probe, live run); with 1 when the capture engine is missing, the probe
\* failed, no target was given, or a runtime error was raised.
C12_ExitStatus ==
    pc = "exited" =>
        /\ exit_status \in {"0", "1"}
        /\ interrupts > 0 => exit_status = "0"
        /\ (interrupts = 0 /\ tshark_ok = "no") => exit_status = "1"
        /\ (interrupts = 0 /\ probed # <<>> /\ ~probe_out.ok) => exit_status = "1"
        /\ (interrupts = 0 /\ Reported(NoTargetLine)) => exit_status = "1"
        /\ (interrupts = 0 /\ Reported(FaultLine)) => exit_status = "1"
        /\ (interrupts = 0 /\ proc # "none" /\ ~Reported(FaultLine)) => exit_status = "0"

\* the permission probe has returned not-ok
ProbeNotOk == probed # <<>> /\ ~probe_out.ok

\* C13: the live capture is entered and its subprocess launched only after
\* check_tshark succeeded and the probe of this run returned ok; the probe is
\* run at most once; when it returns not-ok the run is never entered, no
\* subprocess is launched, and the program, unless the operator interrupts it
\* first, reports the error and exits with status 1.
C13_ProbeGatesLaunch ==
    /\ (proc # "none" \/ pc \in InRun \cup {"return"}) =>
          (tshark_ok = "yes" /\ Len(probed) = 1 /\ probe_out.ok)
    /\ Len(probed) <= 1
    /\ ProbeNotOk =>
          /\ proc = "none"
          /\ pc \in {"probed", "exited"}
          /\ (pc = "exited" /\ interrupts = 0) =>
                (exit_status = "1" /\ Reported(ProbeFailedLine))

C13_ProbeFailedExit ==
    /\ pc = "exited"
    /\ probe_in.kind = "completed"
    /\ probe_in.returncode = 2
    /\ ProbeNotOk
    /\ exit_status = "1"
    /\ Reported(ProbeFailedLine)
    /\ proc = "none"

\* the characters of a line written as one string
RECURSIVE Text(_)
Text(cs) == IF cs = <<>> THEN "" ELSE Head(cs) \o Text(Tail(cs))

RECURSIVE DropZeros(_)
DropZeros(cs) == IF Len(cs) > 1 /\ Head(cs) = "0" THEN DropZeros(Tail(cs)) ELSE cs

\* the line, blanks around it aside, is a decimal numeral of the integer k >= 0
DenotesInt(line, k) ==
    LET cs == Strip(line)
        body == IF cs # <<>> /\ Head(cs) = "+" THEN Tail(cs) ELSE cs
    IN  body # <<>> /\ Text(DropZeros(body)) = ToString(k)

ValidEntry(line) == \E k \in 1..Len(ue_list) : DenotesInt(line, k)

QuitEntry(line) == Strip(line) \in {<<"q">>, <<"Q">>}

\* steps of the selector: input() returned a line, raised EOFError, or the
\* operator interrupted the program
LineRead == pc = "prompt" /\ entries' = entries + 1 /\ out'[Len(out')] # CancelledLine
EndOfInput == pc = "prompt" /\ entries' = entries + 1 /\ out'[Len(out')] = CancelledLine
Interrupted == interrupts' = interrupts + 1

CountersRead == pc = "poll" /\ iface_idx' = iface_idx + 1

SomeUnread(r) == \E k \in 1..4 : r[k] = Unread

\* C15: when one of the four counters of an interface cannot be read in a
\* sample, the row of that interface is N/A in all columns and its previous
\* counters are unchanged; the table of every sample has one row for each
\* interface, in order, with the counters and deltas of those that were read;
\* after a table the sampler goes on to the next sample unless its sample
\* limit is reached, and it ends only by that limit or an interrupt.
C15_UnreadIsPlaceholder ==
    [][/\ (CountersRead /\ SomeUnread(counters')) =>
              /\ rows' = Append(rows, NARow(ifaces[iface_idx]))
              /\ prev' = prev
              /\ pc' = "poll"
              /\ exit_status' = "running"
       /\ (CountersRead /\ ~SomeUnread(counters')) =>
              /\ rows' = Append(rows, Row(ifaces[iface_idx], counters', prev[iface_idx]))
              /\ prev' = [prev EXCEPT ![iface_idx] = counters']
       /\ tables' = tables + 1 =>
              /\ Len(rows) = Len(ifaces)
              /\ \A i \in DOMAIN ifaces : rows[i][1] = ifaces[i]
              /\ pc' = IF sample_limit # 0 /\ sample >= sample_limit THEN "exited"
                       ELSE "sleep"
       /\ pc' = "exited" =>
              \/ interrupts' = 1
              \/ (sample_limit # 0 /\ sample' = sample_limit /\ tables' = sample_limit)]_vars

C15_PlaceholderThenNextSample ==
    /\ pc = "sleep"
    /\ ifaces = <<"val1", "val2">>
    /\ tables = 2
    /\ rows[1] = NARow("val1")
    /\ rows[2] = Row("val2", Reading(1, {}), Reading(0, {}))
    /\ prev[1] = Reading(0, {})
    /\ prev[2] = Reading(1, {})

\* C16: when the program has ended after the capture subprocess was
\* launched, by the end of the stream, an interrupt or a runtime fault, the
\* subprocess has exited or was sent the terminate or the kill signal.
C16_NoOrphanedCapture ==
    (pc = "exited" /\ proc # "none") => (proc # "running" \/ signals # <<>>)

\* the probe subprocess ended with a non-zero status and wrote diagnostic
\* text that does not mention a permission condition
OtherDiagnostic(r) ==
    /\ r.kind = "completed"
    /\ r.returncode # 0
    /\ r.stderr # <<>>
    /\ ~MentionsPermission(r.stderr)

\* C17 as stated: the probe returns not-ok with the diagnostic text on a
\* non-zero exit with diagnostic text that mentions no permission condition,
\* and ok in every other outcome except engine-not-found and permission
\* denied.
C17_OkInEveryRemainingOutcome ==
    pc = "probed" =>
        /\ OtherDiagnostic(probe_in) =>
              probe_out = [ok |-> FALSE, msg |-> Strip(probe_in.stderr)]
        /\ (/\ ~OtherDiagnostic(probe_in)
            /\ probe_in.kind # "notfound"
            /\ ~MentionsPermission(probe_in.stderr)) => probe_out.ok

\* C17 amended: as stated for the outcomes in which the probe subprocess ran
\* to its end or timed out; any other error raised while the probe is run
\* gives not-ok with the text of the error.
C17_OkWhenCompletedOtherwise ==
    pc = "probed" =>
        /\ OtherDiagnostic(probe_in) =>
              probe_out = [ok |-> FALSE, msg |-> Strip(probe_in.stderr)]
        /\ (/\ ~OtherDiagnostic(probe_in)
            /\ probe_in.kind \in {"completed", "timeout"}
            /\ ~MentionsPermission(probe_in.stderr)) => probe_out = [ok |-> TRUE, msg |-> <<>>]
        /\ probe_in.kind = "error" => probe_out = [ok |-> FALSE, msg |-> probe_in.errmsg]

C17_OtherDiagnosticProbed ==
    /\ pc = "probed"
    /\ probe_in.kind = "completed"
    /\ probe_in.returncode = 2
    /\ probe_in.stderr = <<"tshark:", "\n">>
    /\ probe_out = [ok |-> FALSE, msg |-> <<"tshark:">>]

(***************************************************************************)
(* C18: order of the rendered lines.                                       *)
(***************************************************************************)
\* s with one element added at its end
Extends(s, t) == Len(t) = Len(s) + 1 /\ SubSeq(t, 1, Len(s)) = s

\* the numbered lines are the renderings of the first decoded tuples, one
\* line per tuple and in their order, and at most the last tuple has no line
RendersInOrder(lines, tuples) ==
    /\ Len(lines) <= Len(tuples)
    /\ Len(tuples) <= Len(lines) + 1
    /\ \A k \in 1..Len(lines) : lines[k] = PacketLine(mode, tuples[k].tuple, k)

Resolved(i) == IF LastParts[i] # "" THEN LastParts[i] ELSE LastParts[i + 1]

\* the position of the destination address fields in the layout of the mode
DstAt == IF mode = "simple" THEN 3 ELSE 5

\* an address with its port suffix, or alone when no port was resolved
Side(addr, port) == IF port = "" THEN addr ELSE addr \o ":" \o port

\* C19: a line is rendered only for a record whose resolved source and
\* destination address are both non-empty; a record with an empty resolved
\* source or destination is discarded: no line, the counter unchanged, the
\* loop at its next read and the program running; in 5-tuple mode each side
\* of the line is the address followed by ':' and the port when the TCP or
\* UDP port field of that side is non-empty, and the address alone otherwise.
C19_RenderedTupleHasAddresses ==
    /\ (LastDecoded /\ (Resolved(1) = "" \/ Resolved(DstAt) = "")) =>
            /\ LastRead.outcome = "skip"
            /\ Lines = <<>>
            /\ packet_count = 0
            /\ pc = "read"
            /\ exit_status = "running"
    /\ Lines # <<>> =>
            /\ LastDecoded
            /\ Resolved(1) # ""
            /\ Resolved(DstAt) # ""
            /\ cur.src = Resolved(1)
            /\ cur.dst = Resolved(DstAt)
            /\ mode = "5tuple" =>
                   Lines[1].text =
                       AlignRight("1", 6) \o "  "
                           \o AlignLeft(Side(Resolved(1), Resolved(3)), 22) \o " ---> "
                           \o AlignLeft(Side(Resolved(5), Resolved(7)), 22)
                           \o "  [" \o cur.protocol \o "]"
            /\ mode = "simple" =>
                   Lines[1].text =
                       AlignRight("1", 6) \o "  " \o AlignLeft(Resolved(1), 15) \o " ---> "
                           \o AlignLeft(Resolved(3), 15) \o "  [" \o cur.protocol \o "]"

\* C19 witness: a 5-tuple line whose source has a port and whose destination
\* has none
C19_PortOnOneSideRendered ==
    /\ mode = "5tuple"
    /\ Lines # <<>>
    /\ LastDecoded
    /\ Resolved(3) # ""
    /\ Resolved(7) = ""
    /\ Lines[1].text = "     1  10.0.0.1:80            ---> 10.0.0.2                [TCP]"

(***************************************************************************)
(* C20: the message that follows an invalid entry.                         *)
(***************************************************************************)
\* control is back at the prompt after an entry that selected nothing
BackAtPrompt == pc \in {"prompt", "invalid"} /\ pc' = "prompt"

\* C20: whenever select_ue_interactive returns to its prompt after an entry,
\* out of range or not a number, the message it printed last names the valid
\* range 1..n, n the length of the list.
C20_InvalidEntryRepeatsRange ==
    [][BackAtPrompt => out'[Len(out')] = RangeLine(Len(ue_list))]_vars

(***************************************************************************)
(* C21: the interface of the probe and of the capture.                     *)
(***************************************************************************)
\* the capture subprocess was started
Launched == proc # "none"

\* iface is the first interface of the list whose address is ip
FirstWithAddress(iface, ip) ==
    \E i \in DOMAIN ue_list :
        /\ ue_list[i] = <<iface, ip>>
        /\ \A j \in 1..(i - 1) : ue_list[j][2] # ip

\* C21: the probe is run at most once, and when the capture is started the
\* probe has been run exactly once, on the interface the capture is started
\* on; this interface is the --interface value when one is given, else the
\* interface of the entry picked in the selection, else the first active
\* interface whose address is --src-ip, else 'any'.
C21_ProbedInterfaceIsCaptured ==
    /\ Len(probed) <= 1
    /\ Launched =>
           /\ probed = <<capture_iface>>
           /\ IF args.interface # None THEN capture_iface = args.interface
              ELSE IF args.select
              THEN capture_iface = selected[1] /\ \E i \in DOMAIN ue_list : ue_list[i] = selected
              ELSE IF \E i \in DOMAIN ue_list : ue_list[i][2] = args.src_ip
              THEN FirstWithAddress(capture_iface, args.src_ip)
              ELSE capture_iface = "any"

\* C21 witness: no --interface and no selection, two active interfaces have
\* the address --src-ip, and the capture runs on the first, which was probed
C21_FirstMatchCaptured ==
    /\ Launched
    /\ args.interface = None
    /\ ~args.select
    /\ ue_list = SharedAddress
    /\ capture_iface = "val1"
    /\ probed = <<"val1">>

(***************************************************************************)
(* C22: the deltas of the sampler and the number of its tables.            *)
(***************************************************************************)
\* the sampler stopped by itself, under a sample limit
StoppedAtLimit == pc = "exited" /\ interrupts = 0 /\ sample_limit > 0

\* the row appended last reports the deltas of the readings r against since
ReportsDeltas(row, r, since) ==
    /\ row[3] = format_rate(r[1] - since[1])
    /\ row[4] = human_bytes(r[2] - since[2])
    /\ row[5] = format_rate(r[2] - since[2])
    /\ row[8] = format_rate(r[3] - since[3])
    /\ row[9] = human_bytes(r[4] - since[4])
    /\ row[10] = format_rate(r[4] - since[4])

\* C22 as stated, in its form about sums: after every read of an interface,
\* for each counter whose read succeeded, the startup baseline plus the sum
\* of the deltas reported so far is the value just read, also when the row
\* of this sample is the placeholder; and a sampler that stops by itself
\* under a limit N > 0 has printed exactly N tables.
C22_DeltasSumToLastRead ==
    [][/\ CountersRead =>
              \A k \in 1..4 :
                  counters'[k] # Unread => accounted'[iface_idx][k] = counters'[k]
       /\ StoppedAtLimit' => tables' = sample_limit]_vars

\* C22: the deltas reported for an interface are its current readings minus
\* the readings of its latest sample in which all four counters were read
\* (the startup baseline, a failed read taken as 0, if there was none); a
\* sample with an unread counter reports no delta and leaves them in place;
\* so the baseline plus the sum of the reported deltas is, per counter, the
\* reading of the latest complete sample.  Under a limit N > 0 never more
\* than N tables are printed, the sampler stops with the N-th, and it has
\* printed exactly N when it stops by itself.
C22_DeltasAgainstLastFullSample ==
    [][/\ CountersRead =>
              IF SomeUnread(counters')
              THEN accounted' = accounted /\ last_full' = last_full
              ELSE /\ ReportsDeltas(rows'[Len(rows')], counters', last_full[iface_idx])
                   /\ last_full'[iface_idx] = counters'
       /\ accounted' = last_full'
       /\ sample_limit > 0 =>
              /\ tables' <= sample_limit
              /\ (tables' = sample_limit /\ tables = tables' - 1) => pc' = "exited"
       /\ StoppedAtLimit' => tables' = sample_limit]_vars

\* C22 witness: the sampler stopped by itself after its second table, whose
\* row reports the traffic since the startup baseline
C22_SecondSampleAgainstBaseline ==
    /\ StoppedAtLimit
    /\ ifaces = <<"val1">>
    /\ tables = 2
    /\ counters = Reading(1, {})
    /\ rows[1][3] = "1.0/s"
    /\ rows[1][4] = "60.0B"
    /\ accounted[1] = counters

====
